---- MODULE Spec2Model ----
(***************************************************************************)
(* A model of extract_members.py: the batch script that normalises the     *)
(* party, house-membership and name histories of members of Parliament and *)
(* builds the person, representation, constituency, representation-        *)
(* characteristics and representation-status tables, with the functions of *)
(* functions.py that extract the rows from the API responses.              *)
(*                                                                         *)
(* A dataframe is a sequence of records (row order and duplicate rows are  *)
(* kept).  A datetime is the number of days since 1970-01-01; a missing    *)
(* date or number is NaT, a missing string NA.  A uuid is a number: the    *)
(* k-th draw of uuid.uuid4() is the token UuidBase + k, so that every draw *)
(* is distinct from every earlier draw and from every persisted id.        *)
(*                                                                         *)
(* Each cell of the script is one action; pc names the cell to run next.   *)
(* An exception raised by a cell ends the run in pc = "error", and          *)
(* exception names it.                                                     *)
(***************************************************************************)
EXTENDS Integers, Sequences, FiniteSets, TLC

VARIABLES
    api_members_search,                  \* what the Members Search API answers
    api_members_history,                 \* what the Members History API answers
    preelection_period_to_election_date, \* config['mappings'][...]
    pre2015_election_dates,              \* config['constants'][...]
    df_person_existing,                  \* rows [id, id_parliament]
    df_members,                          \* the rows of extractMembers()
    df_name_histories,                   \* rows [id, nameClean, startDate, endDate]
    df_party_histories,                  \* rows [index, id, startDate, endDate, party(, house)]
    df_house_membership_histories,       \* rows [id, house, membershipFrom, membershipFromID, startDate, endDate]
    df_party_histories_mps_pre2015,      \* the exploded pre-2015 MP rows
    df_person,                           \* rows [id, id_parliament, name, gender, start_date, end_date]
    df_representation,
    df_constituency,
    df_representation_characteristics,
    df_representation_status,
    uuid_draws,                          \* number of uuid.uuid4() calls made so far
    pc,                                  \* the cell to run next
    exception,                           \* the exception that ended the run
    run,                                 \* 1 for the first run of the script, 2 for the second
    prior,                               \* where df_person_existing of this run came from
    raw_name_histories,                  \* the frames as read, before any cell changed them
    raw_party_histories,
    raw_house_membership_histories,
    prev_person_existing,                \* df_person_existing, df_person and df_constituency
    prev_df_person,                      \* of the previous run
    prev_df_constituency

vars == <<api_members_search, api_members_history,
          preelection_period_to_election_date, pre2015_election_dates,
          df_person_existing, df_members, df_name_histories, df_party_histories,
          df_house_membership_histories, df_party_histories_mps_pre2015,
          df_person, df_representation, df_constituency,
          df_representation_characteristics, df_representation_status,
          uuid_draws, pc, exception, run, prior,
          raw_name_histories, raw_party_histories,
          raw_house_membership_histories, prev_person_existing, prev_df_person,
          prev_df_constituency>>

api_vars == <<api_members_search, api_members_history>>
config_vars == <<preelection_period_to_election_date, pre2015_election_dates>>
raw_vars == <<raw_name_histories, raw_party_histories, raw_house_membership_histories>>
prev_vars == <<prev_person_existing, prev_df_person, prev_df_constituency>>

----------------------------------------------------------------------------
(* Values *)

\* pd.NaT / NaN / pd.NA: the missing value of a column of dates or numbers.
NaT == -1

isna(x) == x = NaT
notna(x) == x # NaT

\* pd.NA / NaN / None in a column of strings.
NA == "<NA>"

\* No exception raised yet, and the exception of a type raised by the cell
\* that is running.
NoException == [type |-> "None", cell |-> "None"]
Raised(type) == [type |-> type, cell |-> pc]

\* None where an API response or a nested object of it is expected; the
\* object x itself is Some(x).
None == <<>>
Some(x) == <<x>>

\* Comparisons of pandas datetimes: every ordering comparison with NaT is False.
Le(a, b) == notna(a) /\ notna(b) /\ a <= b
Lt(a, b) == notna(a) /\ notna(b) /\ a < b
Ge(a, b) == Le(b, a)
Gt(a, b) == Lt(b, a)
\* == on datetimes: NaT equals nothing, itself included.
DateEq(a, b) == notna(a) /\ notna(b) /\ a = b

\* pd.to_datetime('y-m-dT00:00:00'): the day number of a civil date.
to_datetime(y, m, d) ==
    LET yy  == IF m <= 2 THEN y - 1 ELSE y
        era == yy \div 400
        yoe == yy - era * 400
        mp  == IF m > 2 THEN m - 3 ELSE m + 9
        doy == (153 * mp + 2) \div 5 + d - 1
        doe == yoe * 365 + yoe \div 4 - yoe \div 100 + doy
    IN  era * 146097 + doe - 719468

\* pd.Timedelta(1, unit='D')
Timedelta1D == to_datetime(1970, 1, 2) - to_datetime(1970, 1, 1)

\* The date in lines 196, 241 and 252.
Date_2015_05_07 == to_datetime(2015, 5, 7)

----------------------------------------------------------------------------
(* Sequence helpers *)

Range(s) == {s[i] : i \in 1..Len(s)}

\* The list of f(x) for x in s.
Map(s, f(_)) == [i \in 1..Len(s) |-> f(s[i])]

RECURSIVE Flatten(_)
\* The concatenation of a list of lists.
Flatten(ss) == IF ss = <<>> THEN <<>> ELSE Head(ss) \o Flatten(Tail(ss))

RECURSIVE SetToSortedSeq(_)
\* The members of a finite set of integers in ascending order.
SetToSortedSeq(S) ==
    IF S = {} THEN <<>>
    ELSE LET m == CHOOSE x \in S : \A y \in S : x <= y
         IN  <<m>> \o SetToSortedSeq(S \ {m})

\* Every sequence over S of length lo..hi.
SeqsOf(S, lo, hi) == UNION {[1..n -> S] : n \in lo..hi}

----------------------------------------------------------------------------
(* QUERY MEMBERS SEARCH API, QUERY MEMBERS HISTORY API, GENERAL CLEANING *)

\* An API response is None (a status code other than 200) or Some(json).  An
\* item of a page of the Members Search API is its 'value' object, a member
\* of the Members History API likewise.  A date of the API is None (null) or
\* the year, month and day of its string 'y-m-dT00:00:00'.

\* take=20 of the request, and the 20 of line 86.
PageSize == 20

\* math.ceil(n / PageSize)
Ceil(n) == (n + PageSize - 1) \div PageSize

\* pd.to_datetime() of a column of API dates.
ToDatetime(x) == IF x = None THEN NaT ELSE to_datetime(x[1], x[2], x[3])

\* extractMembers raises TypeError: member['value']['latestHouseMembership']
\* is None and is subscripted.
ExtractMembersRaises(json) ==
    \E i \in 1..Len(json.items) : json.items[i].latestHouseMembership = None

\* member['value']['latestParty']['name'] if member['value']['latestParty'] else None
PartyName(latestParty) == IF latestParty # None THEN latestParty[1].name ELSE NA

\* The dict extractMembers builds for one item.
ExtractMember(member) ==
    LET lhm == member.latestHouseMembership[1]
        ms == lhm.membershipStatus
    IN  [id |-> member.id,
         gender |-> member.gender,
         nameDisplayAs |-> member.nameDisplayAs,
         is_mp |-> lhm.house = 1,
         is_peer |-> lhm.house # 1,
         is_current |-> ms # None,
         party |-> PartyName(member.latestParty),
         constituency |-> lhm.membershipFrom,
         status |-> IF ms # None THEN ms[1].statusDescription ELSE NA,
         statusNotes |-> IF ms # None THEN ms[1].statusNotes ELSE NA,
         statusStartDate |-> IF ms # None THEN ms[1].statusStartDate ELSE None]

\* extractMembers(json)
extractMembers(json) == Map(json.items, ExtractMember)

\* The responses to the requests of the list comprehension of lines 84-87.
MembersSearchResults(api) ==
    [i \in 1..Ceil(api.initial[1].totalResults) |-> api.pages[i]]

\* The records the loop of lines 92-94 extracts: those that are not None.
ReturnedPages(api) == SelectSeq(MembersSearchResults(api), LAMBDA record : record # None)

\* The responses of the Members History API for the ids of df_members that
\* are not None.
ReturnedHistories(api, members) ==
    SelectSeq([i \in 1..Len(members) |-> api[members[i].id]],
              LAMBDA record : record # None)

\* extractMembersHistory(json): the three lists of rows, here each by name.
extractNameHistories(json) ==
    Flatten(Map(json, LAMBDA member :
        Map(member.nameHistory, LAMBDA record :
            [id |-> member.id, startDate |-> record.startDate,
             endDate |-> record.endDate, nameDisplayAs |-> record.nameDisplayAs])))

extractPartyHistories(json) ==
    Flatten(Map(json, LAMBDA member :
        Map(member.partyHistory, LAMBDA record :
            [id |-> member.id, startDate |-> record.startDate,
             endDate |-> record.endDate, party |-> record.party.name])))

extractHouseMembershipHistories(json) ==
    Flatten(Map(json, LAMBDA member :
        Map(member.houseMembershipHistory, LAMBDA record :
            [id |-> member.id, startDate |-> record.membershipStartDate,
             endDate |-> record.membershipEndDate,
             membershipFrom |-> record.membershipFrom,
             membershipFromID |-> record.membershipFromId,
             house |-> record.house])))

\* so.strip_name_title(x, exclude_peerage=True) on the names of the model: a
\* title that is no peerage is removed.
StripNameTitle(x) ==
    CASE x = "Ms Ann Lee" -> "Ann Lee"
      [] OTHER -> x

\* .str.replace(',', '').str.replace('.', '') on the names of the model.
RemoveCommasAndFullStops(x) ==
    CASE x = "Ann. Smith" -> "Ann Smith"
      [] OTHER -> x

\* The nameClean of a nameDisplayAs.
NameClean(x) == RemoveCommasAndFullStops(StripNameTitle(x))

\* df_members after the cleaning.
CleanMembers(df) ==
    [i \in 1..Len(df) |->
        [id |-> df[i].id, gender |-> df[i].gender,
         nameDisplayAs |-> df[i].nameDisplayAs,
         nameClean |-> NameClean(df[i].nameDisplayAs),
         is_mp |-> df[i].is_mp, is_peer |-> df[i].is_peer,
         is_current |-> df[i].is_current, party |-> df[i].party,
         constituency |-> df[i].constituency, status |-> df[i].status,
         statusNotes |-> df[i].statusNotes,
         statusStartDate |-> ToDatetime(df[i].statusStartDate)]]

\* df_name_histories after the cleaning.
CleanNameHistories(df) ==
    [i \in 1..Len(df) |->
        [id |-> df[i].id, nameClean |-> NameClean(df[i].nameDisplayAs),
         nameDisplayAs |-> df[i].nameDisplayAs,
         startDate |-> ToDatetime(df[i].startDate),
         endDate |-> ToDatetime(df[i].endDate)]]

\* df_party_histories after the cleaning, with the RangeIndex of its rows.
CleanPartyHistories(df) ==
    [i \in 1..Len(df) |->
        [index |-> i - 1, id |-> df[i].id,
         startDate |-> ToDatetime(df[i].startDate),
         endDate |-> ToDatetime(df[i].endDate), party |-> df[i].party]]

\* df_house_membership_histories after the cleaning.
CleanHouseMembershipHistories(df) ==
    [i \in 1..Len(df) |->
        [id |-> df[i].id, house |-> df[i].house,
         membershipFrom |-> df[i].membershipFrom,
         membershipFromID |-> df[i].membershipFromID,
         startDate |-> ToDatetime(df[i].startDate),
         endDate |-> ToDatetime(df[i].endDate)]]

----------------------------------------------------------------------------
(* FIX CONSISTENCY OF RECORD STRUCTURE, 1: election-date end dates *)

\* Mutant: Series.map(mapping), which gives NaN for a date that is no key.
PreelectionGetNoDefault(mapping, x) == IF x \in DOMAIN mapping THEN mapping[x] ELSE NaT

\* preelection_period_to_election_date.get(x, x)
PreelectionGet(mapping, x) == IF x \in DOMAIN mapping THEN mapping[x] ELSE x

\* Mutant: the mapped column is not assigned back to the frame.
MapEndDateNotAssigned(df, mapping) == df

\* df['endDate'] = df['endDate'].map(lambda x: mapping.get(x, x))
MapEndDate(df, mapping) ==
    [i \in 1..Len(df) |-> [df[i] EXCEPT !.endDate = PreelectionGet(mapping, @)]]

----------------------------------------------------------------------------
(* FIX CONSISTENCY OF RECORD STRUCTURE, 2: pre-2015 party history records *)

\* df_lords_membership_start_dates: the earliest (non-missing) startDate of the
\* house == 2 records of a member; NaT when the member has none.
LordsMembershipStartDate(hm, id) ==
    LET S == {r.startDate : r \in {x \in Range(hm) : x.id = id /\ x.house = 2}} \ {NaT}
    IN  IF S = {} THEN NaT ELSE CHOOSE d \in S : \A e \in S : d <= e

\* Mutant: x['startDate_x'] > x['startDate_y'].
HouseOfStrict(r, hm) == IF Gt(r.startDate, LordsMembershipStartDate(hm, r.id)) THEN 2 ELSE 1

\* lambda x: 2 if x['startDate_x'] >= x['startDate_y'] else 1
HouseOf(r, hm) == IF Ge(r.startDate, LordsMembershipStartDate(hm, r.id)) THEN 2 ELSE 1

\* df_party_histories['house'] = ...
AddHouse(df, hm) ==
    [i \in 1..Len(df) |->
        [index |-> df[i].index, id |-> df[i].id, startDate |-> df[i].startDate,
         endDate |-> df[i].endDate, party |-> df[i].party,
         house |-> HouseOf(df[i], hm)]]

\* The row filter of df_party_histories_mps_pre2015.
IsMpPre2015(r) == Le(r.endDate, Date_2015_05_07) /\ r.house = 1

\* Mutant: endDate >= 2015-05-07.
IsOtherRecordInclusive(r) ==
    Ge(r.endDate, Date_2015_05_07) \/ isna(r.endDate) \/ r.house = 2

\* The row filter of the records that are appended unchanged.
IsOtherRecord(r) ==
    Gt(r.endDate, Date_2015_05_07) \/ isna(r.endDate) \/ r.house = 2

\* pd.date_range(start, end, freq='D').tolist(): every day from start to end.
date_range(start, end) ==
    IF start > end THEN <<>> ELSE [i \in 1..(end - start + 1) |-> start + i - 1]

\* The days of a record's range that are its first day or an election date.
RetainedDates(r, election_dates) ==
    LET dr == date_range(r.startDate, r.endDate - Timedelta1D)
    IN  SelectSeq(dr, LAMBDA y : y = dr[1] \/ y \in Range(election_dates))

\* Mutant: y >= startDate.
LaterElectionDatesInclusive(startDate, election_dates) ==
    SelectSeq(election_dates \o <<Date_2015_05_07>>, LAMBDA y : Ge(y, startDate))

\* [y for y in pre2015_election_dates + [2015-05-07] if y > startDate]
LaterElectionDates(startDate, election_dates) ==
    SelectSeq(election_dates \o <<Date_2015_05_07>>, LAMBDA y : Gt(y, startDate))

\* explode('date_range'), startDate = date_range, endDate = the first later
\* election date: the rows one record becomes.
ExplodeRecord(r, election_dates) ==
    LET kept == RetainedDates(r, election_dates)
    IN  [k \in 1..Len(kept) |->
            [r EXCEPT !.startDate = kept[k],
                      !.endDate = LaterElectionDates(kept[k], election_dates)[1]]]

\* The exploded frame df_party_histories_mps_pre2015.
PartyHistoriesMpsPre2015(df, election_dates) ==
    Flatten(Map(SelectSeq(df, IsMpPre2015),
                LAMBDA r : ExplodeRecord(r, election_dates)))

\* The exception the cell raises on such a frame.
SplitException(df) ==
    IF \/ SelectSeq(df, IsMpPre2015) = <<>>
       \/ \E r \in Range(SelectSeq(df, IsMpPre2015)) : isna(r.startDate)
    THEN "ValueError"
    ELSE "TypeError"

\* The frames on which the cell raises.  With no pre-2015 MP record, apply()
\* on the empty frame returns a frame, not a column, and the assignment to
\* the column date_range raises ValueError.  date_range() rejects a NaT start
\* (ValueError).  A record whose range is empty (startDate >= endDate)
\* explodes to one row with a NaN startDate, and y > NaN raises TypeError.
SplitRaises(df, election_dates) ==
    \/ SelectSeq(df, IsMpPre2015) = <<>>
    \/ \E r \in Range(SelectSeq(df, IsMpPre2015)) :
            \/ isna(r.startDate)
            \/ RetainedDates(r, election_dates) = <<>>

\* pd.concat([df_party_histories_mps_pre2015, df_party_histories.loc[...]])
ConcatPartyHistories(df, election_dates) ==
    PartyHistoriesMpsPre2015(df, election_dates) \o SelectSeq(df, IsOtherRecord)

----------------------------------------------------------------------------
(* FIX CONSISTENCY OF RECORD STRUCTURE, 3: collapse name history records *)

\* The cleaned names of the model, in sort order.
Names == <<"Ann Lee", "Ann Smith", "Baroness Lee">>

NameRank(n) == CHOOSE i \in 1..Len(Names) : Names[i] = n

\* groupby(['id', 'nameClean']): the group keys in sort order.
GroupKeys(df) ==
    LET keys == {<<r.id, r.nameClean>> : r \in Range(df)}
        code(k) == k[1] * (Len(Names) + 1) + NameRank(k[2])
        codes == SetToSortedSeq({code(k) : k \in keys})
    IN  [i \in 1..Len(codes) |-> CHOOSE k \in keys : code(k) = codes[i]]

\* agg 'min' / 'max': the least / greatest value that is not missing.
AggMin(S) == IF S \ {NaT} = {} THEN NaT ELSE CHOOSE d \in S \ {NaT} : \A e \in S \ {NaT} : d <= e
AggMax(S) == IF S \ {NaT} = {} THEN NaT ELSE CHOOSE d \in S \ {NaT} : \A e \in S \ {NaT} : d >= e

\* Mutant: no mask, the plain min / max of the known dates.
MaskOff(value, S) == value

\* .mask(isna().groupby(...).max()): missing when any value of the group is.
Mask(value, S) == IF NaT \in S THEN NaT ELSE value

\* The collapsed frame: one row per (id, nameClean).
CollapseNameHistories(df) ==
    LET keys == GroupKeys(df)
        starts(k) == {r.startDate : r \in {x \in Range(df) : <<x.id, x.nameClean>> = k}}
        ends(k) == {r.endDate : r \in {x \in Range(df) : <<x.id, x.nameClean>> = k}}
    IN  [i \in 1..Len(keys) |->
            [id |-> keys[i][1], nameClean |-> keys[i][2],
             startDate |-> Mask(AggMin(starts(keys[i])), starts(keys[i])),
             endDate |-> Mask(AggMax(ends(keys[i])), ends(keys[i]))]]

----------------------------------------------------------------------------
(* Build person table *)

\* df_name_histories.merge(df_members[['id', 'gender']], on='id', how='left')
PersonBase(names, members) ==
    LET rowsOf(n) ==
            LET ms == SelectSeq(members, LAMBDA m : m.id = n.id)
            IN  IF ms = <<>>
                THEN <<[id_parliament |-> n.id, name |-> n.nameClean, gender |-> NA,
                        start_date |-> n.startDate, end_date |-> n.endDate]>>
                ELSE [j \in 1..Len(ms) |->
                        [id_parliament |-> n.id, name |-> n.nameClean,
                         gender |-> ms[j].gender,
                         start_date |-> n.startDate, end_date |-> n.endDate]]
    IN  Flatten(Map(names, rowsOf))

\* start_date_matches_end_date
StartDateMatchesEndDate(x, df) ==
    \E r \in Range(df) : x.id_parliament = r.id_parliament /\ DateEq(x.start_date, r.end_date)

\* end_date_matches_start_date
EndDateMatchesStartDate(x, df) ==
    \E r \in Range(df) : x.id_parliament = r.id_parliament /\ DateEq(x.end_date, r.start_date)

\* Both flags are computed, then the dates without a match are set to NA.
KeepNameChangeDates(df) ==
    [i \in 1..Len(df) |->
        [df[i] EXCEPT
            !.start_date = IF StartDateMatchesEndDate(df[i], df) THEN @ ELSE NaT,
            !.end_date = IF EndDateMatchesStartDate(df[i], df) THEN @ ELSE NaT]]

\* Mutant: the rows whose id_parliament is missing are kept instead.
ExistingIdsIsna(existing) ==
    {[id |-> r.id, id_parliament |-> r.id_parliament] :
        r \in {x \in Range(existing) : isna(x.id_parliament)}}

\* df_person_existing.loc[id_parliament.notna()][['id', 'id_parliament']]
\* .drop_duplicates(), as a set of rows.
ExistingIds(existing) ==
    {[id |-> r.id, id_parliament |-> r.id_parliament] :
        r \in {x \in Range(existing) : notna(x.id_parliament)}}

\* validate='many_to_one': MergeError when the right keys are not unique.
MergeRaises(right) ==
    \E a, b \in right : a.id_parliament = b.id_parliament /\ a # b

\* The id the left merge gives a row: the existing one, or missing.
ExistingId(existing, id_parliament) ==
    LET hits == {r \in ExistingIds(existing) : r.id_parliament = id_parliament}
    IN  IF hits = {} THEN NaT ELSE (CHOOSE r \in hits : TRUE).id

\* The first uuid token; persisted ids are below it.
UuidBase == 100

\* The k-th draw of uuid.uuid4() of the process history.
Uuid4(k) == UuidBase + k

\* groupby('id_parliament') of the rows without an id: the keys in sort order.
NewIdParliaments(existing, df) ==
    SetToSortedSeq({r.id_parliament : r \in
        {x \in Range(df) : isna(ExistingId(existing, x.id_parliament))}})

\* Mutant: the existing id is not used, every group gets a new uuid.
PersonIdAlwaysNew(existing, df, draws, id_parliament) ==
    LET all == SetToSortedSeq({r.id_parliament : r \in Range(df)})
    IN  Uuid4(draws + (CHOOSE k \in 1..Len(all) : all[k] = id_parliament))

\* The id of a person row: the existing id, or the uuid drawn for its group.
PersonId(existing, df, draws, id_parliament) ==
    LET old == ExistingId(existing, id_parliament)
        new == NewIdParliaments(existing, df)
    IN  IF notna(old) THEN old
        ELSE Uuid4(draws + (CHOOSE k \in 1..Len(new) : new[k] = id_parliament))

\* Mutant: one uuid per row without an id, not one per id_parliament.
AssignPersonIdsPerRow(existing, df, draws) ==
    [i \in 1..Len(df) |->
        [id |-> IF notna(ExistingId(existing, df[i].id_parliament))
                THEN ExistingId(existing, df[i].id_parliament)
                ELSE Uuid4(draws + i),
         id_parliament |-> df[i].id_parliament, name |-> df[i].name,
         gender |-> df[i].gender, start_date |-> df[i].start_date,
         end_date |-> df[i].end_date]]

\* df_person with its id column.
AssignPersonIds(existing, df, draws) ==
    [i \in 1..Len(df) |->
        [id |-> PersonId(existing, df, draws, df[i].id_parliament),
         id_parliament |-> df[i].id_parliament, name |-> df[i].name,
         gender |-> df[i].gender, start_date |-> df[i].start_date,
         end_date |-> df[i].end_date]]

----------------------------------------------------------------------------
(* Build representation, constituency tables *)

\* The base table with its row uuids, merged (inner, on id_parliament) with
\* df_person[['id', 'id_parliament']].drop_duplicates().
RepresentationBase(hm, person, draws) ==
    LET rows == [i \in 1..Len(hm) |->
                    [id |-> Uuid4(draws + i), id_parliament |-> hm[i].id,
                     house |-> hm[i].house, membershipFrom |-> hm[i].membershipFrom,
                     membershipFromID |-> hm[i].membershipFromID,
                     start_date |-> hm[i].startDate, end_date |-> hm[i].endDate]]
        pairs == {[id |-> p.id, id_parliament |-> p.id_parliament] : p \in Range(person)}
        rowsOf(r) ==
            LET ps == {p \in pairs : p.id_parliament = r.id_parliament}
            IN  IF ps = {} THEN <<>>
                ELSE <<[id |-> r.id, person_id |-> (CHOOSE p \in ps : TRUE).id,
                        id_parliament |-> r.id_parliament, house |-> r.house,
                        membershipFrom |-> r.membershipFrom,
                        membershipFromID |-> r.membershipFromID,
                        start_date |-> r.start_date, end_date |-> r.end_date]>>
    IN  Flatten(Map(rows, rowsOf))

\* lambda x: 'Commons' if x == 1 else 'Lords'
RecodeHouse(x) == IF x = 1 THEN "Commons" ELSE "Lords"

\* str.capitalize() on the strings of the model: the first character in
\* upper case, the others in lower case.
Capitalize(x) ==
    CASE x = "life peer" -> "Life peer"
      [] x = "Sheffield, Hallam" -> "Sheffield, hallam"
      [] x = "Excepted Hereditary" -> "Excepted hereditary"
      [] x = "Leave of Absence" -> "Leave of absence"
      [] x = "Whip Suspended" -> "Whip suspended"
      [] OTHER -> x

\* lambda x: x['membershipFrom'].capitalize() if x['membershipFromID'] <= 10 else pd.NA
PeerageType(x) == IF Le(x.membershipFromID, 10) THEN Capitalize(x.membershipFrom) ELSE NA

\* groupby('membershipFromID')['house'].transform(lambda x: uuid.uuid4()):
\* one draw per group, the groups in sort order.
ConstituencyId(df, draws, membershipFromID) ==
    LET groups == SetToSortedSeq({r.membershipFromID : r \in Range(df)})
    IN  Uuid4(draws + (CHOOSE k \in 1..Len(groups) : groups[k] = membershipFromID))

\* df_representation with house recoded and the type and constituency_id columns.
RepresentationColumns(df, draws) ==
    [i \in 1..Len(df) |->
        [id |-> df[i].id, person_id |-> df[i].person_id,
         id_parliament |-> df[i].id_parliament, house |-> RecodeHouse(df[i].house),
         type |-> PeerageType(df[i]),
         constituency_id |-> ConstituencyId(df, draws, df[i].membershipFromID),
         membershipFrom |-> df[i].membershipFrom,
         membershipFromID |-> df[i].membershipFromID,
         start_date |-> df[i].start_date, end_date |-> df[i].end_date]]

RECURSIVE DropDuplicates(_)
\* drop_duplicates(): the first occurrence of every row.
DropDuplicates(df) ==
    IF df = <<>> THEN <<>>
    ELSE LET init == DropDuplicates(SubSeq(df, 1, Len(df) - 1))
             last == df[Len(df)]
         IN  IF last \in Range(init) THEN init ELSE Append(init, last)

\* Mutant: the rows relating to peerages are not excluded.
ConstituencyOfAllRows(df) ==
    DropDuplicates(
        Map(df, LAMBDA r : [id |-> r.constituency_id, name |-> r.membershipFrom,
                            id_parliament |-> r.membershipFromID]))

\* df_constituency: the rows without a peerage type.
Constituency(df) ==
    DropDuplicates(
        Map(SelectSeq(df, LAMBDA r : r.type = NA),
            LAMBDA r : [id |-> r.constituency_id, name |-> r.membershipFrom,
                        id_parliament |-> r.membershipFromID]))

\* Mutant: the other record of the individual need not lack an end date.
IsDroppedRepresentationAnyStart(r, df) ==
    /\ isna(r.start_date)
    /\ isna(r.end_date)
    /\ r.id_parliament \in
          {x.id_parliament : x \in {y \in Range(df) : notna(y.start_date)}}

\* The rows df_representation.drop() removes.
IsDroppedRepresentation(r, df) ==
    /\ isna(r.start_date)
    /\ isna(r.end_date)
    /\ r.id_parliament \in
          {x.id_parliament : x \in {y \in Range(df) : notna(y.start_date) /\ isna(y.end_date)}}

\* df_representation after the drop, with its final columns.
Representation(df) ==
    Map(SelectSeq(df, LAMBDA r : ~IsDroppedRepresentation(r, df)),
        LAMBDA r : [id |-> r.id, person_id |-> r.person_id,
                    id_parliament |-> r.id_parliament, house |-> r.house,
                    type |-> r.type, constituency_id |-> r.constituency_id,
                    start_date |-> r.start_date, end_date |-> r.end_date])

----------------------------------------------------------------------------
(* Build representation history table *)

\* The row filter: the party record starts within the representation period.
StartsWithin(rep, ph) ==
    /\ Le(rep.start_date, ph.startDate)
    /\ (isna(rep.end_date) \/ Gt(rep.end_date, ph.startDate))

\* The merge of representations and party histories of the same member,
\* filtered, with the columns kept (the row uuids are added after).
CharacteristicsBase(rep, ph) ==
    LET rowsOf(r) ==
            Map(SelectSeq(ph, LAMBDA p : p.id = r.id_parliament /\ StartsWithin(r, p)),
                LAMBDA p : [representation_id |-> r.id, party |-> p.party,
                            start_date |-> p.startDate, end_date |-> p.endDate])
    IN  Flatten(Map(rep, rowsOf))

\* df_representation_characteristics with its id column.
RepresentationCharacteristics(rep, ph, draws) ==
    LET base == CharacteristicsBase(rep, ph)
    IN  [i \in 1..Len(base) |->
            [id |-> Uuid4(draws + i), representation_id |-> base[i].representation_id,
             party |-> base[i].party, start_date |-> base[i].start_date,
             end_date |-> base[i].end_date]]

----------------------------------------------------------------------------
(* Build representation status table *)

\* x.replace('Current Member', 'Active') on the status values of the model.
ReplaceCurrentMember(x) == IF x = "Current Member" THEN "Active" ELSE x

\* lambda x: x.replace('Current Member', 'Active').capitalize() if pd.notna(x) else x
RecodeStatus(x) == IF x # NA THEN Capitalize(ReplaceCurrentMember(x)) ELSE x

\* The reason of a row whose status is already recoded: None when it equals
\* the status, otherwise in sentence case.
RecodeReason(reason, status) ==
    IF reason = status THEN NA
    ELSE IF reason # NA THEN Capitalize(reason) ELSE reason

\* The base table, status and reason recoded, with its missing end date.
StatusBase(members) ==
    [i \in 1..Len(members) |->
        [id_parliament |-> members[i].id,
         status |-> RecodeStatus(members[i].status),
         reason |-> RecodeReason(members[i].statusNotes, RecodeStatus(members[i].status)),
         start_date |-> members[i].statusStartDate,
         end_date |-> NaT]]

\* The left merge with the representations that have no end date: a status
\* row for every such representation of the member, or one row without any.
StatusMerge(status, rep) ==
    LET open == SelectSeq(rep, LAMBDA r : isna(r.end_date))
        rowsOf(st) ==
            LET rs == SelectSeq(open, LAMBDA r : r.id_parliament = st.id_parliament)
            IN  IF rs = <<>>
                THEN <<[representation_id |-> NaT, id_parliament |-> st.id_parliament,
                        status |-> st.status, reason |-> st.reason,
                        start_date |-> st.start_date, end_date |-> st.end_date,
                        start_date_r |-> NaT]>>
                ELSE [j \in 1..Len(rs) |->
                        [representation_id |-> rs[j].id,
                         id_parliament |-> st.id_parliament,
                         status |-> st.status, reason |-> st.reason,
                         start_date |-> st.start_date, end_date |-> st.end_date,
                         start_date_r |-> rs[j].start_date]]
    IN  Flatten(Map(status, rowsOf))

\* Mutant: the status start date is never replaced.
ClampStartDateOff(df) == df

\* The status start date becomes the start date of the representation where
\* it is before it.
ClampStartDate(df) ==
    [i \in 1..Len(df) |->
        [df[i] EXCEPT !.start_date =
            IF Lt(df[i].start_date, df[i].start_date_r) THEN df[i].start_date_r ELSE @]]

\* groupby('id_parliament').size().max(): missing for a frame without rows.
MaxGroupSize(df) ==
    LET sizes == {Cardinality({i \in 1..Len(df) : df[i].id_parliament = k}) :
                    k \in {r.id_parliament : r \in Range(df)}}
    IN  IF sizes = {} THEN NaT ELSE CHOOSE n \in sizes : \A m \in sizes : n >= m

\* Mutant: the assertion is not made.
StatusAssertionOff(df) == FALSE

\* assert ... == 1 fails.
StatusAssertionFails(df) == MaxGroupSize(df) # 1

\* df_representation_status with its final columns and its id column.
RepresentationStatus(df, draws) ==
    [i \in 1..Len(df) |->
        [id |-> Uuid4(draws + i), representation_id |-> df[i].representation_id,
         id_parliament |-> df[i].id_parliament, status |-> df[i].status,
         reason |-> df[i].reason, start_date |-> df[i].start_date,
         end_date |-> df[i].end_date]]

----------------------------------------------------------------------------
(* The configuration and the frames a run starts from *)

\* config.yaml, as in the specification's example scenario.
ConfigExample ==
    [mapping |-> (to_datetime(2015, 3, 30) :> to_datetime(2015, 5, 7)),
     election_dates |-> <<to_datetime(2010, 5, 6)>>]

\* config.yaml with every election since 2001.
ConfigFull ==
    [mapping |-> (to_datetime(2015, 3, 30) :> to_datetime(2015, 5, 7)) @@
                 (to_datetime(2017, 5, 3) :> to_datetime(2017, 6, 8)) @@
                 (to_datetime(2019, 11, 6) :> to_datetime(2019, 12, 12)),
     election_dates |-> <<to_datetime(2001, 6, 7), to_datetime(2005, 5, 5),
                          to_datetime(2010, 5, 6)>>]

Configs == {ConfigExample, ConfigFull}

\* Bounds of the frames.
MaxPartyRows == 2
MaxHouseRows == 1
MaxNameRows == 2
MaxExistingRows == 2
MaxRepresentationRows == 2

\* pd.DataFrame(rows): the rows with a RangeIndex 0..n-1.
WithRangeIndex(rows) ==
    [i \in 1..Len(rows) |->
        [index |-> i - 1, id |-> rows[i].id, startDate |-> rows[i].startDate,
         endDate |-> rows[i].endDate, party |-> rows[i].party]]

\* Party history records of member 99.
PartyRecords ==
    [id : {99},
     startDate : {to_datetime(2004, 1, 1), to_datetime(2010, 1, 1), to_datetime(2012, 3, 1)},
     endDate : {to_datetime(2010, 5, 6), to_datetime(2012, 3, 1), to_datetime(2015, 3, 30),
                to_datetime(2017, 5, 3), NaT},
     party : {"X", "Y"}]

\* The party history records used where a member has several.
PartyRecordsOfMany ==
    [id : {99}, startDate : {to_datetime(2004, 1, 1)},
     endDate : {to_datetime(2010, 5, 6), to_datetime(2012, 3, 1), NaT},
     party : {"X", "Y"}]
    \cup
    [id : {99}, startDate : {to_datetime(2012, 3, 1)},
     endDate : {to_datetime(2010, 5, 6), to_datetime(2012, 3, 1), NaT},
     party : {"Y"}]

\* The house membership frames used with them.
HouseFramesOfMany ==
    {<<>>,
     <<[id |-> 99, house |-> 1, membershipFrom |-> "Sheffield, Hallam",
        membershipFromID |-> 3722, startDate |-> to_datetime(2004, 1, 1),
        endDate |-> to_datetime(2012, 3, 1)]>>,
     <<[id |-> 99, house |-> 2, membershipFrom |-> "life peer",
        membershipFromID |-> 8, startDate |-> to_datetime(2012, 3, 1),
        endDate |-> NaT]>>}

\* House membership history records of member 99.
HouseRecords ==
    {[id |-> 99, house |-> h.house, membershipFrom |-> h.membershipFrom,
      membershipFromID |-> h.membershipFromID, startDate |-> s, endDate |-> e] :
        h \in {[house |-> 1, membershipFrom |-> "Sheffield, Hallam", membershipFromID |-> 3722],
               [house |-> 2, membershipFrom |-> "life peer", membershipFromID |-> 8]},
        s \in {to_datetime(2012, 3, 1)},
        e \in {to_datetime(2015, 3, 30), NaT}}

\* House membership history records of member 99 for the representation
\* table: a constituency, a peerage type (membershipFromID up to 10) and a
\* Lords membership that is none, each with and without its dates.
RepresentationRecords ==
    {[id |-> 99, house |-> h.house, membershipFrom |-> h.membershipFrom,
      membershipFromID |-> h.membershipFromID, startDate |-> s, endDate |-> e] :
        h \in {[house |-> 1, membershipFrom |-> "Sheffield, Hallam", membershipFromID |-> 3722],
               [house |-> 2, membershipFrom |-> "Excepted Hereditary", membershipFromID |-> 10],
               [house |-> 2, membershipFrom |-> "Bishop of Ely", membershipFromID |-> 11]},
        s \in {NaT, to_datetime(2012, 3, 1)},
        e \in {NaT, to_datetime(2015, 3, 30)}}

\* Name history records of member 99.
NameRecords ==
    [id : {99}, nameClean : {"Ann Lee"},
     startDate : {NaT, to_datetime(2010, 5, 6), to_datetime(2012, 3, 1)},
     endDate : {NaT, to_datetime(2012, 3, 1), to_datetime(2015, 3, 30)}]
    \cup
    [id : {99}, nameClean : {"Baroness Lee"},
     startDate : {to_datetime(2012, 3, 1)},
     endDate : {NaT, to_datetime(2012, 3, 1), to_datetime(2015, 3, 30)}]

\* Rows of the existing person table.
ExistingRecords == [id : {1, 2}, id_parliament : {99, 100, NaT}]

\* The frames kept fixed while another frame varies.
Members ==
    <<[id |-> 99, gender |-> "F", nameDisplayAs |-> "Ann Lee", nameClean |-> "Ann Lee",
       is_mp |-> FALSE, is_peer |-> TRUE, is_current |-> TRUE, party |-> "X",
       constituency |-> "life peer", status |-> "Current Member",
       statusNotes |-> NA, statusStartDate |-> to_datetime(2015, 3, 30)],
      [id |-> 100, gender |-> "M", nameDisplayAs |-> "Ann Smith",
       nameClean |-> "Ann Smith", is_mp |-> TRUE, is_peer |-> FALSE,
       is_current |-> TRUE, party |-> "Y", constituency |-> "Witney",
       status |-> "Current Member", statusNotes |-> NA,
       statusStartDate |-> to_datetime(2010, 5, 6)]>>
OneName == <<[id |-> 99, nameClean |-> "Ann Lee", startDate |-> NaT, endDate |-> NaT]>>
TwoMembersNames ==
    <<[id |-> 99, nameClean |-> "Ann Lee", startDate |-> NaT,
       endDate |-> to_datetime(2012, 3, 1)],
      [id |-> 100, nameClean |-> "Ann Smith", startDate |-> NaT, endDate |-> NaT],
      [id |-> 99, nameClean |-> "Baroness Lee", startDate |-> to_datetime(2012, 3, 1),
       endDate |-> NaT]>>
OneParty ==
    <<[id |-> 99, startDate |-> to_datetime(2010, 1, 1),
       endDate |-> to_datetime(2015, 3, 30), party |-> "X"]>>
TwoMembersHouses ==
    <<[id |-> 99, house |-> 1, membershipFrom |-> "Sheffield, Hallam",
       membershipFromID |-> 3722, startDate |-> to_datetime(2010, 5, 6),
       endDate |-> to_datetime(2015, 3, 30)],
      [id |-> 100, house |-> 1, membershipFrom |-> "Witney",
       membershipFromID |-> 3803, startDate |-> to_datetime(2010, 5, 6),
       endDate |-> NaT],
      [id |-> 99, house |-> 2, membershipFrom |-> "life peer",
       membershipFromID |-> 8, startDate |-> to_datetime(2015, 3, 30),
       endDate |-> NaT]>>

\* The rows extractMembers() gives member 99, by its membership status: none
\* (a former member), or a status with its notes and its start date.
StatusMemberRows ==
    {[Members[1] EXCEPT !.is_current = FALSE, !.status = NA, !.statusNotes = NA,
                        !.statusStartDate = NaT]}
    \cup
    {[Members[1] EXCEPT !.status = st, !.statusNotes = notes, !.statusStartDate = d] :
        st \in {"Current Member", "Leave of Absence"},
        notes \in {NA, "Active", "Whip Suspended"},
        d \in {NaT, to_datetime(2010, 5, 6), to_datetime(2015, 3, 30)}}

\* The members frames with such a row: with member 100, or with the row twice.
StatusMembers ==
    {<<m, Members[2]>> : m \in StatusMemberRows} \cup {<<m, m>> : m \in StatusMemberRows}

\* The house membership frames used with them: member 99 with no membership,
\* one without end date, a closed and an open one, or two without end date.
HouseFramesOfStatus ==
    {<<>>,
     <<TwoMembersHouses[3]>>,
     TwoMembersHouses,
     <<[TwoMembersHouses[1] EXCEPT !.endDate = NaT], TwoMembersHouses[3]>>}

\* No request is made: the frames are those of an earlier extraction.
NoMembersSearch == [initial |-> None, pages |-> <<>>]

\* The state once config.yaml, the existing person table and the four
\* extracted frames are read.
InitWith(config, existing, members, names, parties, houses) ==
    /\ api_members_search = NoMembersSearch
    /\ api_members_history = <<>>
    /\ preelection_period_to_election_date = config.mapping
    /\ pre2015_election_dates = config.election_dates
    /\ df_person_existing = existing
    /\ df_members = members
    /\ df_name_histories = names
    /\ df_party_histories = WithRangeIndex(parties)
    /\ df_house_membership_histories = houses
    /\ df_party_histories_mps_pre2015 = <<>>
    /\ df_person = <<>>
    /\ df_representation = <<>>
    /\ df_constituency = <<>>
    /\ df_representation_characteristics = <<>>
    /\ df_representation_status = <<>>
    /\ uuid_draws = 0
    /\ pc = "fix_end_dates"
    /\ exception = NoException
    /\ run = 1
    /\ prior = "database"
    /\ raw_name_histories = names
    /\ raw_party_histories = WithRangeIndex(parties)
    /\ raw_house_membership_histories = houses
    /\ prev_person_existing = <<>>
    /\ prev_df_person = <<>>
    /\ prev_df_constituency = <<>>

\* Runs over one party history record, with and without a house membership.
InitOnePartyRecord ==
    \E config \in Configs,
       parties \in SeqsOf(PartyRecords, 1, 1),
       houses \in SeqsOf(HouseRecords, 0, MaxHouseRows) :
        InitWith(config, <<>>, Members, OneName, parties, houses)

\* Runs over several party history records of a member.
InitManyPartyRecords ==
    \E parties \in SeqsOf(PartyRecordsOfMany, 2, MaxPartyRows),
       houses \in HouseFramesOfMany :
        InitWith(ConfigFull, <<>>, Members, OneName, parties, houses)

\* Runs over the name histories of a member.
InitNames ==
    \E names \in SeqsOf(NameRecords, 1, MaxNameRows) :
        InitWith(ConfigFull, <<>>, Members, names, OneParty, TwoMembersHouses)

\* Runs over the existing person table, with two members.
InitExisting ==
    \E existing \in SeqsOf(ExistingRecords, 0, MaxExistingRows) :
        InitWith(ConfigFull, existing, Members, TwoMembersNames, OneParty,
                 TwoMembersHouses)

\* Runs over the house membership records of a member.
InitRepresentation ==
    \E houses \in SeqsOf(RepresentationRecords, 1, MaxRepresentationRows) :
        InitWith(ConfigFull, <<>>, Members, OneName, OneParty, houses)

\* Runs over the membership status of a member.
InitStatus ==
    \E members \in StatusMembers, houses \in HouseFramesOfStatus :
        InitWith(ConfigFull, <<>>, members, TwoMembersNames, OneParty, houses)

\* What the Members Search API holds on member 99: with or without a latest
\* party, a latest house membership and a membership status, and with a
\* house that is 1, 2 or neither.
MembershipStatuses ==
    {None,
     Some([statusDescription |-> "Current Member", statusNotes |-> NA,
           statusStartDate |-> <<2015, 3, 30>>])}

LatestHouseMemberships ==
    {None} \cup
    {Some([house |-> h, membershipFrom |-> "Sheffield, Hallam", membershipStatus |-> ms]) :
        h \in {1, 2, 3}, ms \in MembershipStatuses}

SearchItems ==
    {[id |-> 99, gender |-> "F", nameDisplayAs |-> "Ms Ann Lee",
      latestParty |-> lp, latestHouseMembership |-> lhm] :
        lp \in {None, Some([name |-> "X"])}, lhm \in LatestHouseMemberships}

\* What it holds on member 100.
SearchItem100 ==
    [id |-> 100, gender |-> "M", nameDisplayAs |-> "Ann. Smith",
     latestParty |-> Some([name |-> "Y"]),
     latestHouseMembership |->
        Some([house |-> 1, membershipFrom |-> "Witney",
              membershipStatus |->
                Some([statusDescription |-> "Current Member", statusNotes |-> NA,
                      statusStartDate |-> <<2010, 5, 6>>])])]

\* The answers of the Members Search API: the initial request and the pages,
\* one member a page, each answered or not.
MembersSearchResponses ==
    {[initial |-> initial, pages |-> <<page1, page2>>] :
        initial \in {None} \cup
                    {Some([totalResults |-> n, items |-> <<>>]) : n \in {0, 1, PageSize + 1}},
        page1 \in {None} \cup
                  {Some([totalResults |-> PageSize + 1, items |-> <<item>>]) :
                        item \in SearchItems},
        page2 \in {None, Some([totalResults |-> PageSize + 1, items |-> <<SearchItem100>>])}}

\* What the Members History API holds on member 99, by the house of its
\* house membership record, and on member 100.
History99(house) ==
    <<[id |-> 99,
       nameHistory |->
            <<[startDate |-> None, endDate |-> None, nameDisplayAs |-> "Ms Ann Lee"]>>,
       partyHistory |->
            <<[startDate |-> <<2010, 1, 1>>, endDate |-> <<2015, 3, 30>>,
               party |-> [name |-> "X"]]>>,
       houseMembershipHistory |->
            <<[membershipStartDate |-> <<2010, 5, 6>>, membershipEndDate |-> None,
               membershipFrom |-> IF house = 2 THEN "life peer" ELSE "Sheffield, Hallam",
               membershipFromId |-> IF house = 2 THEN 8 ELSE 3722,
               house |-> house]>>]>>

History100 ==
    <<[id |-> 100,
       nameHistory |->
            <<[startDate |-> None, endDate |-> None, nameDisplayAs |-> "Ann. Smith"]>>,
       partyHistory |->
            <<[startDate |-> <<2010, 5, 6>>, endDate |-> <<2015, 3, 30>>,
               party |-> [name |-> "Y"]]>>,
       houseMembershipHistory |->
            <<[membershipStartDate |-> <<2010, 5, 6>>, membershipEndDate |-> None,
               membershipFrom |-> "Witney", membershipFromId |-> 3803,
               house |-> 1]>>]>>

\* The answers of the Members History API, by member id.
MembersHistoryResponses ==
    {(99 :> h99) @@ (100 :> h100) :
        h99 \in {None} \cup {Some(History99(house)) : house \in {1, 2, 3}},
        h100 \in {None, Some(History100)}}

\* Runs that extract the frames from the API.
InitExtraction ==
    \E search \in MembersSearchResponses, history \in MembersHistoryResponses :
        /\ api_members_search = search
        /\ api_members_history = history
        /\ preelection_period_to_election_date = ConfigFull.mapping
        /\ pre2015_election_dates = ConfigFull.election_dates
        /\ df_person_existing = <<>>
        /\ df_members = <<>>
        /\ df_name_histories = <<>>
        /\ df_party_histories = <<>>
        /\ df_house_membership_histories = <<>>
        /\ df_party_histories_mps_pre2015 = <<>>
        /\ df_person = <<>>
        /\ df_representation = <<>>
        /\ df_constituency = <<>>
        /\ df_representation_characteristics = <<>>
        /\ df_representation_status = <<>>
        /\ uuid_draws = 0
        /\ pc = "query_members_search"
        /\ exception = NoException
        /\ run = 1
        /\ prior = "database"
        /\ raw_name_histories = <<>>
        /\ raw_party_histories = <<>>
        /\ raw_house_membership_histories = <<>>
        /\ prev_person_existing = <<>>
        /\ prev_df_person = <<>>
        /\ prev_df_constituency = <<>>

Init ==
    \/ InitRepresentation
    \/ InitExtraction
    \/ InitStatus
    \/ InitOnePartyRecord
    \/ InitManyPartyRecords
    \/ InitNames
    \/ InitExisting

----------------------------------------------------------------------------
(* The cells of the script *)

\* Lines 79-96.  members_search_results['totalResults'] raises TypeError when
\* the initial request returned None; a page that is None is passed over.
QueryMembersSearch ==
    /\ pc = "query_members_search"
    /\ IF api_members_search.initial = None
       THEN /\ pc' = "error"
            /\ exception' = Raised("TypeError")
            /\ UNCHANGED df_members
       ELSE IF \E i \in 1..Len(ReturnedPages(api_members_search)) :
                    ExtractMembersRaises(ReturnedPages(api_members_search)[i][1])
       THEN /\ pc' = "error"
            /\ exception' = Raised("TypeError")
            /\ UNCHANGED df_members
       ELSE /\ pc' = "query_members_history"
            /\ df_members' =
                    Flatten(Map(ReturnedPages(api_members_search),
                                LAMBDA record : extractMembers(record[1])))
            /\ UNCHANGED exception
    /\ UNCHANGED <<api_vars, config_vars, raw_vars, prev_vars, df_person_existing,
                   df_name_histories, df_party_histories,
                   df_house_membership_histories, df_party_histories_mps_pre2015,
                   df_person, df_representation, df_constituency,
                   df_representation_characteristics, df_representation_status,
                   uuid_draws, run, prior>>

\* Lines 101-127.  pd.DataFrame([]) has no column: df_members['id'] raises
\* KeyError when no member was extracted.  A history that is None is passed
\* over.
QueryMembersHistory ==
    /\ pc = "query_members_history"
    /\ IF df_members = <<>>
       THEN /\ pc' = "error"
            /\ exception' = Raised("KeyError")
            /\ UNCHANGED <<df_name_histories, df_party_histories,
                           df_house_membership_histories>>
       ELSE LET records == ReturnedHistories(api_members_history, df_members)
            IN  /\ pc' = "general_cleaning"
                /\ df_name_histories' =
                        Flatten(Map(records, LAMBDA r : extractNameHistories(r[1])))
                /\ df_party_histories' =
                        Flatten(Map(records, LAMBDA r : extractPartyHistories(r[1])))
                /\ df_house_membership_histories' =
                        Flatten(Map(records,
                                    LAMBDA r : extractHouseMembershipHistories(r[1])))
                /\ UNCHANGED exception
    /\ UNCHANGED <<api_vars, config_vars, raw_vars, prev_vars, df_person_existing,
                   df_members, df_party_histories_mps_pre2015,
                   df_person, df_representation, df_constituency,
                   df_representation_characteristics, df_representation_status,
                   uuid_draws, run, prior>>

\* Lines 132-158.  A frame built from an empty list has no column, and the
\* cell raises KeyError on it.
GeneralCleaning ==
    /\ pc = "general_cleaning"
    /\ IF \/ df_name_histories = <<>>
          \/ df_party_histories = <<>>
          \/ df_house_membership_histories = <<>>
       THEN /\ pc' = "error"
            /\ exception' = Raised("KeyError")
            /\ UNCHANGED <<df_members, df_name_histories, df_party_histories,
                           df_house_membership_histories, raw_vars>>
       ELSE /\ pc' = "fix_end_dates"
            /\ df_members' = CleanMembers(df_members)
            /\ df_name_histories' = CleanNameHistories(df_name_histories)
            /\ df_party_histories' = CleanPartyHistories(df_party_histories)
            /\ df_house_membership_histories' =
                    CleanHouseMembershipHistories(df_house_membership_histories)
            /\ raw_name_histories' = CleanNameHistories(df_name_histories)
            /\ raw_party_histories' = CleanPartyHistories(df_party_histories)
            /\ raw_house_membership_histories' =
                    CleanHouseMembershipHistories(df_house_membership_histories)
            /\ UNCHANGED exception
    /\ UNCHANGED <<api_vars, config_vars, prev_vars, df_person_existing,
                   df_party_histories_mps_pre2015,
                   df_person, df_representation, df_constituency,
                   df_representation_characteristics, df_representation_status,
                   uuid_draws, run, prior>>

\* Lines 165-172.
FixEndDates ==
    /\ pc = "fix_end_dates"
    /\ df_party_histories' =
            MapEndDate(df_party_histories, preelection_period_to_election_date)
    /\ df_house_membership_histories' =
            MapEndDate(df_house_membership_histories, preelection_period_to_election_date)
    /\ pc' = "split_party_histories"
    /\ UNCHANGED <<exception, api_vars, config_vars, raw_vars, prev_vars,
                   df_representation_status, df_person_existing, df_members,
                   df_name_histories, df_party_histories_mps_pre2015, df_person,
                   df_representation, df_constituency,
                   df_representation_characteristics, uuid_draws, run, prior>>

\* Lines 179-257.
SplitPartyHistories ==
    /\ pc = "split_party_histories"
    /\ LET with_house == AddHouse(df_party_histories, df_house_membership_histories)
       IN    IF SplitRaises(with_house, pre2015_election_dates)
             THEN /\ pc' = "error"
                  /\ exception' = Raised(SplitException(with_house))
                  /\ df_party_histories' = with_house
                  /\ UNCHANGED df_party_histories_mps_pre2015
             ELSE /\ pc' = "collapse_name_histories"
                  /\ UNCHANGED exception
                  /\ df_party_histories_mps_pre2015' =
                        PartyHistoriesMpsPre2015(with_house, pre2015_election_dates)
                  /\ df_party_histories' =
                        ConcatPartyHistories(with_house, pre2015_election_dates)
    /\ UNCHANGED <<api_vars, config_vars, raw_vars, prev_vars,
                   df_representation_status, df_person_existing, df_members,
                   df_name_histories, df_house_membership_histories, df_person,
                   df_representation, df_constituency,
                   df_representation_characteristics, uuid_draws, run, prior>>

\* Lines 270-277.
CollapseNames ==
    /\ pc = "collapse_name_histories"
    /\ df_name_histories' = CollapseNameHistories(df_name_histories)
    /\ pc' = "build_person"
    /\ UNCHANGED <<exception, api_vars, config_vars, raw_vars, prev_vars,
                   df_representation_status, df_person_existing, df_members,
                   df_party_histories, df_house_membership_histories,
                   df_party_histories_mps_pre2015, df_person, df_representation,
                   df_constituency, df_representation_characteristics, uuid_draws,
                   run, prior>>

\* Lines 284-368.
BuildPerson ==
    /\ pc = "build_person"
    /\ LET base == KeepNameChangeDates(PersonBase(df_name_histories, df_members))
       IN  IF MergeRaises(ExistingIds(df_person_existing))
           THEN /\ pc' = "error"
                /\ exception' = Raised("MergeError")
                /\ df_person' = base
                /\ UNCHANGED uuid_draws
           ELSE /\ pc' = "build_representation"
                /\ UNCHANGED exception
                /\ df_person' = AssignPersonIds(df_person_existing, base, uuid_draws)
                /\ uuid_draws' = uuid_draws + Len(NewIdParliaments(df_person_existing, base))
    /\ UNCHANGED <<api_vars, config_vars, raw_vars, prev_vars,
                   df_representation_status, df_person_existing, df_members,
                   df_name_histories, df_party_histories, df_house_membership_histories,
                   df_party_histories_mps_pre2015, df_representation, df_constituency,
                   df_representation_characteristics, run, prior>>

\* Lines 374-470.
BuildRepresentation ==
    /\ pc = "build_representation"
    /\ LET base == RepresentationBase(df_house_membership_histories, df_person, uuid_draws)
           draws == uuid_draws + Len(df_house_membership_histories)
           full == RepresentationColumns(base, draws)
       IN  /\ df_constituency' = Constituency(full)
           /\ df_representation' = Representation(full)
           /\ uuid_draws' = draws + Cardinality({r.membershipFromID : r \in Range(base)})
    /\ pc' = "build_representation_characteristics"
    /\ UNCHANGED <<exception, api_vars, config_vars, raw_vars, prev_vars,
                   df_representation_status, df_person_existing, df_members,
                   df_name_histories, df_party_histories, df_house_membership_histories,
                   df_party_histories_mps_pre2015, df_person,
                   df_representation_characteristics, run, prior>>

\* Lines 477-522.
BuildRepresentationCharacteristics ==
    /\ pc = "build_representation_characteristics"
    /\ df_representation_characteristics' =
            RepresentationCharacteristics(df_representation, df_party_histories, uuid_draws)
    /\ uuid_draws' = uuid_draws + Len(CharacteristicsBase(df_representation, df_party_histories))
    /\ pc' = "build_representation_status"
    /\ UNCHANGED <<exception, api_vars, config_vars, raw_vars, prev_vars,
                   df_representation_status, df_person_existing, df_members,
                   df_name_histories, df_party_histories, df_house_membership_histories,
                   df_party_histories_mps_pre2015, df_person, df_representation,
                   df_constituency, run, prior>>

\* Lines 528-593.
BuildRepresentationStatus ==
    /\ pc = "build_representation_status"
    /\ LET merged == ClampStartDate(StatusMerge(StatusBase(df_members), df_representation))
       IN  IF StatusAssertionFails(merged)
           THEN /\ pc' = "error"
                /\ exception' = Raised("AssertionError")
                /\ df_representation_status' = merged
                /\ UNCHANGED uuid_draws
           ELSE /\ pc' = "done"
                /\ df_representation_status' = RepresentationStatus(merged, uuid_draws)
                /\ uuid_draws' = uuid_draws + Len(merged)
                /\ UNCHANGED exception
    /\ UNCHANGED <<api_vars, config_vars, raw_vars, prev_vars, df_person_existing,
                   df_members, df_name_histories, df_party_histories,
                   df_house_membership_histories, df_party_histories_mps_pre2015,
                   df_person, df_representation, df_constituency,
                   df_representation_characteristics, run, prior>>

\* The number of runs of the script a behaviour holds.
MaxRuns == 2

\* The frames of a new run: the same API data is extracted again.
StartRun ==
    /\ df_name_histories' = raw_name_histories
    /\ df_party_histories' = raw_party_histories
    /\ df_house_membership_histories' = raw_house_membership_histories
    /\ df_party_histories_mps_pre2015' = <<>>
    /\ df_person' = <<>>
    /\ df_representation' = <<>>
    /\ df_constituency' = <<>>
    /\ df_representation_characteristics' = <<>>
    /\ df_representation_status' = <<>>
    /\ prev_person_existing' = df_person_existing
    /\ prev_df_person' = df_person
    /\ prev_df_constituency' = df_constituency
    /\ run' = run + 1
    /\ pc' = "fix_end_dates"
    /\ UNCHANGED <<api_vars, config_vars, raw_vars, df_members, uuid_draws, exception>>

\* The script is run a second time against the same person table.
RunAgain ==
    /\ pc = "done"
    /\ run < MaxRuns
    /\ StartRun
    /\ prior' = "database"
    /\ UNCHANGED df_person_existing

\* The person table of the run is written to the database, and the script is
\* run a second time: lines 53-67 then read what the first run produced.
PersistAndRunAgain ==
    /\ pc = "done"
    /\ run < MaxRuns
    /\ StartRun
    /\ prior' = "previous_run"
    /\ df_person_existing' =
            [i \in 1..Len(df_person) |->
                [id |-> df_person[i].id, id_parliament |-> df_person[i].id_parliament]]

Next ==
    \/ FixEndDates
    \/ SplitPartyHistories
    \/ CollapseNames
    \/ BuildPerson
    \/ BuildRepresentation
    \/ BuildRepresentationCharacteristics
    \/ BuildRepresentationStatus
    \/ QueryMembersSearch
    \/ QueryMembersHistory
    \/ GeneralCleaning
    \/ RunAgain
    \/ PersistAndRunAgain

Spec == Init /\ [][Next]_vars

----------------------------------------------------------------------------
(* Properties *)

\* The cells that run after a cell, in the same run.
AfterFixEndDates == pc = "split_party_histories"
AfterSplit == pc = "collapse_name_histories"
AfterCollapse == pc = "build_person"
PersonBuilt ==
    pc \in {"build_representation", "build_representation_characteristics",
            "build_representation_status", "done"}
RepresentationBuilt ==
    pc \in {"build_representation_characteristics", "build_representation_status", "done"}
Done == pc = "done"

\* The end date a record as read should have after the correction of step 1.
CorrectedEndDate(r) ==
    IF r.endDate \in DOMAIN preelection_period_to_election_date
    THEN preelection_period_to_election_date[r.endDate]
    ELSE r.endDate

\* A party history record as read that belongs to the Commons: the member has
\* no Lords membership that started on or before the record's start date.
ClassifiedCommons(r) ==
    ~ \E h \in Range(raw_house_membership_histories) :
        h.id = r.id /\ h.house = 2 /\ h.startDate # NaT /\ h.startDate <= r.startDate

\* The rows of the output that came from the record with this index label.
SubSpans(index) == SelectSeq(df_party_histories_mps_pre2015, LAMBDA s : s.index = index)

\* C1 (as claimed): the sub-spans of every Commons party history record whose
\* corrected end date is on or before 2015-05-07 tile the record's interval:
\* the first starts at the record's start, each ends where the next starts,
\* and the last ends at the record's corrected end date.
C1_SplitCoversOriginalSpan ==
    AfterSplit =>
        \A i \in 1..Len(raw_party_histories) :
            LET r == raw_party_histories[i]
                e == CorrectedEndDate(r)
                subs == SubSpans(r.index)
            IN  (ClassifiedCommons(r) /\ e # NaT /\ e <= to_datetime(2015, 5, 7)) =>
                    /\ Len(subs) >= 1
                    /\ subs[1].startDate = r.startDate
                    /\ \A k \in 1..Len(subs) : subs[k].startDate < subs[k].endDate
                    /\ \A k \in 1..(Len(subs) - 1) : subs[k].endDate = subs[k + 1].startDate
                    /\ subs[Len(subs)].endDate = e

\* The example scenario: one span of member 99, no Lords membership, the
\* example configuration.
C2_Scenario ==
    /\ preelection_period_to_election_date =
            (to_datetime(2015, 3, 30) :> to_datetime(2015, 5, 7))
    /\ pre2015_election_dates = <<to_datetime(2010, 5, 6)>>
    /\ raw_party_histories =
            <<[index |-> 0, id |-> 99, startDate |-> to_datetime(2010, 1, 1),
               endDate |-> to_datetime(2015, 3, 30), party |-> "X"]>>
    /\ \A h \in Range(raw_house_membership_histories) : h.house # 2

\* A party history frame as the list of its (id, startDate, endDate, party).
Spans(df) == [i \in 1..Len(df) |-> <<df[i].id, df[i].startDate, df[i].endDate, df[i].party>>]

\* C2: in the example scenario, correction and split emit exactly the rows
\* (99, 2010-01-01, 2010-05-06, X) and (99, 2010-05-06, 2015-05-07, X).
C2_ExampleScenario ==
    (C2_Scenario /\ AfterSplit) =>
        Spans(df_party_histories) =
            <<<<99, to_datetime(2010, 1, 1), to_datetime(2010, 5, 6), "X">>,
              <<99, to_datetime(2010, 5, 6), to_datetime(2015, 5, 7), "X">>>>

C2_Witness == C2_Scenario /\ AfterSplit /\ Len(df_party_histories) = 2

\* A frame after step 1 against the frame as read: the same rows, with only
\* the end dates that are keys of the mapping replaced by the paired date.
OnlyEndDatesCorrected(df, raw) ==
    /\ Len(df) = Len(raw)
    /\ \A i \in 1..Len(raw) : df[i] = [raw[i] EXCEPT !.endDate = CorrectedEndDate(raw[i])]

\* C3: step 1 replaces an end date that is a key of the mapping by the paired
\* election date and changes nothing else, in both history frames.
C3_EndDateCorrection ==
    AfterFixEndDates =>
        /\ OnlyEndDatesCorrected(df_party_histories, raw_party_histories)
        /\ OnlyEndDatesCorrected(df_house_membership_histories,
                                 raw_house_membership_histories)

\* Both frames held an end date that is a key, now replaced, and the house
\* membership frame holds a missing end date.
C3_Witness ==
    /\ AfterFixEndDates
    /\ \E i \in 1..Len(raw_party_histories) :
            /\ raw_party_histories[i].endDate \in DOMAIN preelection_period_to_election_date
            /\ df_party_histories[i].endDate =
                    preelection_period_to_election_date[raw_party_histories[i].endDate]
    /\ \E i \in 1..Len(raw_house_membership_histories) :
            /\ raw_house_membership_histories[i].endDate
                    \in DOMAIN preelection_period_to_election_date
            /\ df_house_membership_histories[i].endDate # raw_house_membership_histories[i].endDate
    /\ \E r \in Range(df_house_membership_histories) : r.endDate = NaT

\* C4: applying the substitution of step 1 to the frames step 1 produced
\* changes nothing, and no date the mapping yields is a key mapped elsewhere.
C4_CorrectionIdempotent ==
    AfterFixEndDates =>
        /\ MapEndDate(df_party_histories, preelection_period_to_election_date)
                = df_party_histories
        /\ MapEndDate(df_house_membership_histories, preelection_period_to_election_date)
                = df_house_membership_histories
        /\ \A k \in DOMAIN preelection_period_to_election_date :
                LET v == preelection_period_to_election_date[k]
                IN  v \in DOMAIN preelection_period_to_election_date =>
                        preelection_period_to_election_date[v] = v

C4_Witness ==
    /\ AfterFixEndDates
    /\ \E i \in 1..Len(raw_party_histories) :
            /\ raw_party_histories[i].endDate \in DOMAIN preelection_period_to_election_date
            /\ df_party_histories[i].endDate # raw_party_histories[i].endDate

\* The rows of a name history frame with a group key.
NameGroup(df, key) == {i \in 1..Len(df) : <<df[i].id, df[i].nameClean>> = key}

\* The date the collapsing should give a group: missing when any date of the
\* group is missing, otherwise the date `best` among the group's dates.
NullDominant(value, dates, best(_, _)) ==
    IF NaT \in dates THEN value = NaT
    ELSE value \in dates /\ \A d \in dates : best(value, d)

\* C5: after the collapsing there is exactly one row for every (id, nameClean)
\* of the name histories as read and no other row; its startDate is missing
\* when a startDate of the group is missing and the earliest one otherwise,
\* its endDate missing when an endDate of the group is missing and the latest
\* one otherwise.
C5_NullDominance ==
    AfterCollapse =>
        /\ \A i \in 1..Len(raw_name_histories) :
                Cardinality(NameGroup(df_name_histories,
                    <<raw_name_histories[i].id, raw_name_histories[i].nameClean>>)) = 1
        /\ \A i \in 1..Len(df_name_histories) :
                LET key == <<df_name_histories[i].id, df_name_histories[i].nameClean>>
                    group == NameGroup(raw_name_histories, key)
                IN  /\ group # {}
                    /\ NullDominant(df_name_histories[i].startDate,
                                    {raw_name_histories[j].startDate : j \in group},
                                    LAMBDA a, b : a <= b)
                    /\ NullDominant(df_name_histories[i].endDate,
                                    {raw_name_histories[j].endDate : j \in group},
                                    LAMBDA a, b : a >= b)

\* A group of two rows, one with a missing and one with a known endDate, has
\* been collapsed to a row with a missing endDate.
C5_Witness ==
    /\ AfterCollapse
    /\ \E i, j \in 1..Len(raw_name_histories) :
            /\ raw_name_histories[i].id = raw_name_histories[j].id
            /\ raw_name_histories[i].nameClean = raw_name_histories[j].nameClean
            /\ raw_name_histories[i].endDate = NaT
            /\ raw_name_histories[j].endDate # NaT
            /\ \E k \in 1..Len(df_name_histories) :
                    /\ df_name_histories[k].id = raw_name_histories[i].id
                    /\ df_name_histories[k].nameClean = raw_name_histories[i].nameClean
                    /\ df_name_histories[k].endDate = NaT

\* The external ids the existing person table maps, and the ids it holds.
PriorIdParliaments(existing) ==
    {r.id_parliament : r \in Range(existing)} \ {NaT}
PriorIds(existing) == {r.id : r \in Range(existing)}

\* C6: every person row whose external id is in the prior mapping carries the
\* prior id; the rows of an external id that is not carry one id, which is
\* new and differs from the id of the rows of every other external id.
C6_PersonIdentityResolution ==
    PersonBuilt =>
        \A i \in 1..Len(df_person) :
            LET p == df_person[i]
            IN  /\ \A e \in Range(df_person_existing) :
                        e.id_parliament = p.id_parliament => p.id = e.id
                /\ p.id # NaT
                /\ \A j \in 1..Len(df_person) :
                        df_person[j].id_parliament = p.id_parliament =>
                            df_person[j].id = p.id
                /\ p.id_parliament \notin PriorIdParliaments(df_person_existing) =>
                        /\ p.id \notin PriorIds(df_person_existing)
                        /\ \A j \in 1..Len(df_person) :
                                df_person[j].id_parliament # p.id_parliament =>
                                    df_person[j].id # p.id

\* Two rows share a new id, and another member's row carries its prior id.
C6_Witness ==
    /\ PersonBuilt
    /\ \E i, j, k \in 1..Len(df_person) :
            /\ i # j
            /\ df_person[i].id_parliament = df_person[j].id_parliament
            /\ df_person[i].id_parliament \notin PriorIdParliaments(df_person_existing)
            /\ df_person[i].id = df_person[j].id
            /\ df_person[k].id_parliament \in PriorIdParliaments(df_person_existing)
            /\ df_person[k].id \in PriorIds(df_person_existing)

\* The second run of the script, against the database the first run read.
SecondRunSamePrior ==
    run = 2 /\ prior = "database" /\ prev_person_existing = df_person_existing /\ PersonBuilt

\* C7 (as claimed): two runs with the same prior mapping and the same external
\* ids give every external id the same surrogate id.
C7_SameInputsSameIds ==
    SecondRunSamePrior =>
        \A p \in Range(df_person), q \in Range(prev_df_person) :
            p.id_parliament = q.id_parliament => p.id = q.id

\* C7 (amended): two runs with the same prior mapping and the same external
\* ids give every external id that is in the prior mapping the same id.
C7_SameInputsSameMappedIds ==
    SecondRunSamePrior =>
        \A p \in Range(df_person), q \in Range(prev_df_person) :
            (/\ p.id_parliament = q.id_parliament
             /\ p.id_parliament \in PriorIdParliaments(df_person_existing)) => p.id = q.id

C7_Witness ==
    /\ SecondRunSamePrior
    /\ \E p \in Range(df_person), q \in Range(prev_df_person) :
            /\ p.id_parliament = q.id_parliament
            /\ p.id_parliament \in PriorIdParliaments(df_person_existing)
            /\ p.id = q.id
    /\ \E p \in Range(df_person) :
            p.id_parliament \notin PriorIdParliaments(df_person_existing)

\* The second run of the script, reading the person table that a first run
\* with an empty person table wrote.
WarmRunAfterColdRun ==
    run = 2 /\ prior = "previous_run" /\ prev_person_existing = <<>> /\ PersonBuilt

\* C8: after a cold first run whose person table is persisted, the second run
\* mints no person id and gives every external id the id of the first run,
\* which minted one id per external id.
C8_ColdThenWarm ==
    WarmRunAfterColdRun =>
        /\ Len(df_person) = Len(prev_df_person)
        /\ \A i \in 1..Len(df_person) :
                /\ df_person[i].id_parliament = prev_df_person[i].id_parliament
                /\ df_person[i].id = prev_df_person[i].id
                /\ df_person[i].id \in PriorIds(df_person_existing)
        /\ \A p, q \in Range(prev_df_person) :
                p.id = q.id <=> p.id_parliament = q.id_parliament

C8_Witness ==
    /\ WarmRunAfterColdRun
    /\ \E p, q \in Range(df_person) : p.id_parliament # q.id_parliament

\* C9 (as claimed): a constituency whose external id had a surrogate id in the
\* constituency table written by the previous run keeps that id.
C9_ConstituencyIdsKept ==
    (run = 2 /\ prior = "previous_run" /\ RepresentationBuilt) =>
        \A c \in Range(df_constituency), q \in Range(prev_df_constituency) :
            c.id_parliament = q.id_parliament => c.id = q.id

\* The representation a characteristics row references.
RepresentationOf(c) ==
    CHOOSE r \in Range(df_representation) : r.id = c.representation_id

\* C10 (as claimed): every characteristics row starts on or after the start
\* of its representation; when the representation has an end date, the row
\* has one too and it is on or before it (a representation without an end
\* date is open and bounds nothing).
C10_CharacteristicContained ==
    Done =>
        \A c \in Range(df_representation_characteristics) :
            LET r == RepresentationOf(c)
            IN  /\ r.start_date # NaT /\ r.start_date <= c.start_date
                /\ r.end_date # NaT => (c.end_date # NaT /\ c.end_date <= r.end_date)

\* The representations of a member that have no end date.
OpenRepresentations(id) ==
    {i \in 1..Len(df_representation) :
        df_representation[i].id_parliament = id /\ df_representation[i].end_date = NaT}

\* The rows of the members frame of a member.
MemberRows(id) == {i \in 1..Len(df_members) : df_members[i].id = id}

\* The input gives a member several status rows: several rows of the members
\* frame, or several representations without end date.
SeveralStatusRows(id) ==
    \/ Cardinality(MemberRows(id)) > 1
    \/ MemberRows(id) # {} /\ Cardinality(OpenRepresentations(id)) > 1

\* The status cell has run to its end, or has stopped at its assertion.
StatusBuilt == pc = "done"
StatusAssertionError ==
    pc = "error" /\ exception.type = "AssertionError"

\* C11: when the status build completes, every member has exactly one status
\* row and the input gave no member several; when the input gives a member
\* several status rows the run has stopped with an AssertionError and not
\* completed; and the assertion stops the run only for such an input.
C11_StatusSingularity ==
    /\ StatusBuilt =>
            /\ \A id \in {m.id : m \in Range(df_members)} :
                    /\ ~SeveralStatusRows(id)
                    /\ Cardinality({i \in 1..Len(df_representation_status) :
                            df_representation_status[i].id_parliament = id}) = 1
            /\ \A r \in Range(df_representation_status) :
                    r.id_parliament \in {m.id : m \in Range(df_members)}
    /\ StatusAssertionError =>
            \E id \in {m.id : m \in Range(df_members)} : SeveralStatusRows(id)

\* The run stopped at the assertion for a member with two representations
\* without end date.
C11_Witness ==
    /\ StatusAssertionError
    /\ \E id \in {m.id : m \in Range(df_members)} :
            /\ Cardinality(MemberRows(id)) = 1
            /\ Cardinality(OpenRepresentations(id)) = 2

\* The items of the pages of the Members Search API that were requested and
\* answered, in the order of the requests.
ReturnedItems ==
    IF api_members_search.initial = None THEN <<>>
    ELSE Flatten(Map(ReturnedPages(api_members_search), LAMBDA page : page[1].items))

\* An item that holds no latest house membership.
NoLatestHouseMembership == \E item \in Range(ReturnedItems) : item.latestHouseMembership = None

\* A request that was made and answered with another status code than 200.
RequestNotAnswered ==
    \/ api_members_search.initial = None
    \/ \E page \in Range(MembersSearchResults(api_members_search)) : page = None
    \/ \E m \in Range(df_members) : api_members_history[m.id] = None

\* The run raised in one of the two cells that query the API.
ExtractionError ==
    pc = "error" /\ exception.cell \in {"query_members_search", "query_members_history"}

\* The rows of extractMembers() are in df_members.
MembersExtracted == pc = "query_members_history"

\* C13 (as claimed): a house that is neither 1 nor 2, on an item of the
\* members search or on a house membership record, is never emitted: when
\* the rows of the members are extracted no item has such a house, and when
\* the representation table is built no house membership record has one.
C13_SchemaViolationFailsFast ==
    /\ MembersExtracted =>
            \A item \in Range(ReturnedItems) :
                item.latestHouseMembership # None =>
                    item.latestHouseMembership[1].house \in {1, 2}
    /\ RepresentationBuilt =>
            \A h \in Range(raw_house_membership_histories) : h.house \in {1, 2}

\* C14 (as claimed): a request that is not answered never makes the cells
\* that query the API raise: when one of them raised, either every request
\* was answered or an answered page holds an item extractMembers() raises on.
C14_AbsenceNotFatal ==
    ExtractionError => (~RequestNotAnswered \/ NoLatestHouseMembership)

\* C15 (as claimed): extractMembers() never raises, and gives one row for
\* every item: party is missing when latestParty is null; status, statusNotes
\* and statusStartDate are missing and is_current is False when
\* membershipStatus is null.
C15_ExtractorNullSafety ==
    /\ (pc = "error" /\ exception.cell = "query_members_search") =>
            api_members_search.initial = None
    /\ MembersExtracted =>
            /\ Len(df_members) = Len(ReturnedItems)
            /\ \A i \in 1..Len(ReturnedItems) :
                    LET item == ReturnedItems[i]
                        row == df_members[i]
                    IN  /\ row.id = item.id
                        /\ item.latestParty = None => row.party = NA
                        /\ item.latestHouseMembership # None =>
                            (item.latestHouseMembership[1].membershipStatus = None =>
                                /\ row.status = NA
                                /\ row.statusNotes = NA
                                /\ row.statusStartDate = None
                                /\ row.is_current = FALSE)

\* The member has a row in the person table: the inner merge of lines 389-394
\* builds representations from the house membership records of such members.
HasPerson(id) == \E p \in Range(df_person) : p.id_parliament = id

\* A representation row and a house membership record as read have the same
\* member, dates (the end date corrected) and house.
SameMembership(h, r) ==
    /\ h.id = r.id_parliament
    /\ h.startDate = r.start_date
    /\ CorrectedEndDate(h) = r.end_date
    /\ (h.house = 1) <=> (r.house = "Commons")

\* C16 (as claimed): a representation row has a peerage type exactly when it
\* is a Lords membership with an external constituency id up to 10, and a
\* constituency_id exactly when it is a Commons membership or a Lords
\* membership with an external id above 10; no row has both, and no Commons
\* row has a peerage type.
C16_PeerageTypeOrConstituency ==
    RepresentationBuilt =>
        \A r \in Range(df_representation) :
            /\ ~(r.type # NA /\ r.constituency_id # NaT)
            /\ r.house = "Commons" => r.type = NA
            /\ \E h \in Range(raw_house_membership_histories) :
                    /\ SameMembership(h, r)
                    /\ r.type # NA <=> (h.house = 2 /\ h.membershipFromID <= 10)
                    /\ r.constituency_id # NaT <=>
                            (h.house = 1 \/ (h.house = 2 /\ h.membershipFromID > 10))

\* C17: no row of the constituency table has an external id up to 10; every
\* external id above 10 of a house membership record of a member with a
\* person row is in the constituency table, once, and its surrogate id there is the constituency_id of the
\* representation rows built from the records with that external id;
\* different external ids have different surrogate ids.
C17_ConstituencyExcludesPeerages ==
    RepresentationBuilt =>
        /\ \A c \in Range(df_constituency) : c.id_parliament # NaT /\ c.id_parliament > 10
        /\ \A h \in Range(raw_house_membership_histories) :
                (h.membershipFromID > 10 /\ HasPerson(h.id)) =>
                    /\ Cardinality({i \in 1..Len(df_constituency) :
                            df_constituency[i].id_parliament = h.membershipFromID}) = 1
                    /\ \A c \in Range(df_constituency), r \in Range(df_representation) :
                            (/\ c.id_parliament = h.membershipFromID
                             /\ SameMembership(h, r)
                             /\ r.type = NA) => r.constituency_id = c.id
        /\ \A c, d \in Range(df_constituency) :
                c.id = d.id <=> c.id_parliament = d.id_parliament

\* A peerage and a constituency were read; the constituency is in the
\* table and on a representation row.
C17_Witness ==
    /\ RepresentationBuilt
    /\ \E r \in Range(df_representation) : r.type # NA
    /\ \E c \in Range(df_constituency), r \in Range(df_representation) :
            r.type = NA /\ r.constituency_id = c.id /\ r.house = "Lords"

\* The rows of the representation table of a member with these dates.
RepresentationRowsWith(id, start, end) ==
    {i \in 1..Len(df_representation) :
        /\ df_representation[i].id_parliament = id
        /\ df_representation[i].start_date = start
        /\ df_representation[i].end_date = end}

\* The house membership records as read of a member with these dates, the
\* end date corrected.
HouseMembershipRecordsWith(id, start, end) ==
    {i \in 1..Len(raw_house_membership_histories) :
        /\ raw_house_membership_histories[i].id = id
        /\ raw_house_membership_histories[i].startDate = start
        /\ CorrectedEndDate(raw_house_membership_histories[i]) = end}

\* Every house membership record with a start date or an end date, of a
\* member with a person row, has its representation row.
DatedRowsKept ==
    \A h \in Range(raw_house_membership_histories) :
        (HasPerson(h.id) /\ (h.startDate # NaT \/ h.endDate # NaT)) =>
            Cardinality(RepresentationRowsWith(h.id, h.startDate, CorrectedEndDate(h)))
                = Cardinality(HouseMembershipRecordsWith(h.id, h.startDate,
                                                        CorrectedEndDate(h)))

\* C18 (as claimed): a row without start date and end date is dropped when
\* the member has another record with a start date, with or without an end
\* date; every row with a start date or an end date is kept.
C18_PlaceholderDropped ==
    RepresentationBuilt =>
        /\ \A h, o \in Range(raw_house_membership_histories) :
                (/\ HasPerson(h.id)
                 /\ h.id = o.id /\ h.startDate = NaT /\ h.endDate = NaT
                 /\ o.startDate # NaT)
                    => RepresentationRowsWith(h.id, NaT, NaT) = {}
        /\ DatedRowsKept

\* C18 (amended): a row without start date and end date is dropped exactly
\* when the member has another record with a start date and without an end
\* date, and is kept otherwise; every row with a start date or an end date
\* is kept.
C18_PlaceholderDroppedIfOpen ==
    RepresentationBuilt =>
        /\ \A h \in Range(raw_house_membership_histories) :
                (HasPerson(h.id) /\ h.startDate = NaT /\ h.endDate = NaT) =>
                    IF \E o \in Range(raw_house_membership_histories) :
                            o.id = h.id /\ o.startDate # NaT /\ o.endDate = NaT
                    THEN RepresentationRowsWith(h.id, NaT, NaT) = {}
                    ELSE Cardinality(RepresentationRowsWith(h.id, NaT, NaT))
                            = Cardinality(HouseMembershipRecordsWith(h.id, NaT, NaT))
        /\ DatedRowsKept

\* A row without dates was dropped beside an open record, and in another
\* case kept beside a closed one: here the first.
C18_Witness ==
    /\ RepresentationBuilt
    /\ HouseMembershipRecordsWith(99, NaT, NaT) # {}
    /\ RepresentationRowsWith(99, NaT, NaT) = {}
    /\ df_representation # <<>>

----------------------------------------------------------------------------
(* House of a party history record *)

\* The party history record as read that carries this index label.
RawPartyRecord(index) ==
    CHOOSE r \in Range(raw_party_histories) : r.index = index

\* The house column has been computed: the split cell has run, to its end or
\* to the exception it raises after the column is assigned.
HouseAssigned ==
    \/ AfterSplit
    \/ pc = "error" /\ exception.cell = "split_party_histories"

\* The rows of a frame that carry this index label.
RowsOf(df, index) == SelectSeq(df, LAMBDA s : s.index = index)

\* C19: a party history record is classified Lords (house 2) exactly when the
\* member has a Lords house membership record whose start date is on or
\* before the record's start date (an equal date counts), and Commons
\* (house 1) otherwise, members with no Lords membership included; and every
\* record classified Lords comes out of the split once, with the dates it had
\* going in, whatever its end date, and is not among the split records.
C19_HouseInference ==
    /\ HouseAssigned =>
            \A s \in Range(df_party_histories) :
                /\ s.house \in {1, 2}
                /\ s.house = 1 <=> ClassifiedCommons(RawPartyRecord(s.index))
    /\ AfterSplit =>
            \A r \in Range(raw_party_histories) :
                ~ ClassifiedCommons(r) =>
                    /\ RowsOf(df_party_histories, r.index) =
                            <<[index |-> r.index, id |-> r.id,
                               startDate |-> r.startDate,
                               endDate |-> CorrectedEndDate(r),
                               party |-> r.party, house |-> 2]>>
                    /\ RowsOf(df_party_histories_mps_pre2015, r.index) = <<>>

\* C19 witness: a record that starts on the day of the member's earliest
\* Lords membership and ends on or before 2015-05-07 has come out of the
\* split as one Lords row, beside a Commons record that was split.
C19_Witness ==
    /\ AfterSplit
    /\ \E r \in Range(raw_party_histories) :
            /\ r.startDate # NaT
            /\ r.startDate =
                    LordsMembershipStartDate(raw_house_membership_histories, r.id)
            /\ CorrectedEndDate(r) # NaT
            /\ CorrectedEndDate(r) <= to_datetime(2015, 5, 7)
            /\ \E s \in Range(df_party_histories) : s.index = r.index /\ s.house = 2
    /\ \E s \in Range(df_party_histories_mps_pre2015) : s.house = 1

----------------------------------------------------------------------------
(* Name change dates of the person table *)

\* The collapsed name span a person row was built from.
NameSpanOf(p) ==
    CHOOSE n \in Range(df_name_histories) :
        n.id = p.id_parliament /\ n.nameClean = p.name

\* The other name spans of the same external id.
OtherNameSpans(n) ==
    {o \in Range(df_name_histories) : o.id = n.id /\ o.nameClean # n.nameClean}

\* C20: a person row keeps its start date only if another name span of the
\* same external id ends on that date, and its end date only if another name
\* span of the same external id starts on that date; otherwise the date is
\* missing.  The span of the row itself is not such a span.
C20_NameChangeAdjacency ==
    PersonBuilt =>
        \A p \in Range(df_person) :
            LET n == NameSpanOf(p)
            IN  /\ p.start_date =
                        IF /\ n.startDate # NaT
                           /\ \E o \in OtherNameSpans(n) : o.endDate = n.startDate
                        THEN n.startDate ELSE NaT
                /\ p.end_date =
                        IF /\ n.endDate # NaT
                           /\ \E o \in OtherNameSpans(n) : o.startDate = n.endDate
                        THEN n.endDate ELSE NaT

----------------------------------------------------------------------------
(* Representation of a status row *)

\* The status start date the members frame holds for a member.
StatusStartDates(id) ==
    {m.statusStartDate : m \in {x \in Range(df_members) : x.id = id}}

\* The rows of the representation table a status row references.
ReferencedRepresentations(s) ==
    {r \in Range(df_representation) : r.id = s.representation_id}

\* C21: every status row with a representation_id references one
\* representation, which is of the same person and has no end date; its start
\* date is not before the start date of that representation: it is the start
\* date of the representation when the member's status start date is before
\* it, and the member's status start date, unchanged, otherwise.
C21_StatusAttachedAndClamped ==
    StatusBuilt =>
        \A s \in Range(df_representation_status) :
            s.representation_id # NaT =>
                /\ Cardinality(ReferencedRepresentations(s)) = 1
                /\ \A r \in ReferencedRepresentations(s) :
                        /\ r.id_parliament = s.id_parliament
                        /\ r.end_date = NaT
                        /\ ~ (s.start_date # NaT /\ r.start_date # NaT
                                /\ s.start_date < r.start_date)
                        /\ \E d \in StatusStartDates(s.id_parliament) :
                                s.start_date =
                                    IF d # NaT /\ r.start_date # NaT /\ d < r.start_date
                                    THEN r.start_date
                                    ELSE d

\* C21 witness: a status that started before the member's open representation
\* has been given the start date of the representation.
C21_Witness ==
    /\ StatusBuilt
    /\ \E s \in Range(df_representation_status) :
            /\ s.representation_id # NaT
            /\ \E r \in ReferencedRepresentations(s) :
                    /\ r.start_date # NaT
                    /\ s.start_date = r.start_date
                    /\ \E d \in StatusStartDates(s.id_parliament) :
                            d # NaT /\ d < r.start_date

----------------------------------------------------------------------------
(* Routing of the party history records by the split *)

\* The record as it enters the split: end date corrected, house added.
EnteringSplit(r) ==
    [index |-> r.index, id |-> r.id, startDate |-> r.startDate,
     endDate |-> CorrectedEndDate(r), party |-> r.party,
     house |-> IF ClassifiedCommons(r) THEN 1 ELSE 2]

\* The two branches, as the claim words them.
RoutedToSplit(r) ==
    /\ EnteringSplit(r).house = 1
    /\ EnteringSplit(r).endDate # NaT
    /\ EnteringSplit(r).endDate <= to_datetime(2015, 5, 7)
RoutedToPassThrough(r) ==
    \/ EnteringSplit(r).endDate # NaT /\ EnteringSplit(r).endDate > to_datetime(2015, 5, 7)
    \/ EnteringSplit(r).endDate = NaT
    \/ EnteringSplit(r).house = 2

\* The rows of the output that follow the split records: those appended as
\* they were.
PassedThrough ==
    SubSeq(df_party_histories, Len(df_party_histories_mps_pre2015) + 1,
           Len(df_party_histories))

\* No two rows of the sequence are equal.
NoEqualRows(rows) == \A i, j \in 1..Len(rows) : rows[i] = rows[j] => i = j

\* C22: when the split completes, every party history record is in exactly
\* one branch; a record of the split branch has its rows among the split rows
\* only, at least one when its start date is before its end date, no two of
\* them equal; a record of the other branch appears exactly once, with every
\* field as it entered, and not among the split rows; and every output row
\* carries the id and the party of the input record it came from.
C22_SplitNeitherLosesNorDuplicates ==
    AfterSplit =>
        /\ SubSeq(df_party_histories, 1, Len(df_party_histories_mps_pre2015)) =
                df_party_histories_mps_pre2015
        /\ \A r \in Range(raw_party_histories) :
                /\ RoutedToSplit(r) # RoutedToPassThrough(r)
                /\ RoutedToSplit(r) =>
                        /\ RowsOf(PassedThrough, r.index) = <<>>
                        /\ EnteringSplit(r).startDate < EnteringSplit(r).endDate =>
                                Len(RowsOf(df_party_histories_mps_pre2015, r.index)) >= 1
                        /\ NoEqualRows(RowsOf(df_party_histories_mps_pre2015, r.index))
                /\ RoutedToPassThrough(r) =>
                        /\ RowsOf(PassedThrough, r.index) = <<EnteringSplit(r)>>
                        /\ RowsOf(df_party_histories_mps_pre2015, r.index) = <<>>
        /\ \A s \in Range(df_party_histories) :
                \E r \in Range(raw_party_histories) :
                    r.index = s.index /\ r.id = s.id /\ r.party = s.party

\* C22 witness: a record has been split in several rows and another record,
\* of another party, has been appended as it was.
C22_Witness ==
    /\ AfterSplit
    /\ \E r, q \in Range(raw_party_histories) :
            /\ RoutedToSplit(r)
            /\ Len(RowsOf(df_party_histories_mps_pre2015, r.index)) >= 2
            /\ RoutedToPassThrough(q)
            /\ q.party # r.party
            /\ RowsOf(PassedThrough, q.index) = <<EnteringSplit(q)>>

====
